---------------------------- MODULE Spec2Model ----------------------------
(***************************************************************************)
(* A model of the inventory API's batch and pagination core:               *)
(*   inventory_api/crud/product_crud.py        single-item operations      *)
(*   inventory_api/crud/product_crud_batch.py  batch operations            *)
(*   inventory_api/exceptions.py               the typed failures          *)
(* The Cosmos container is the environment: its operations are modelled    *)
(* after the interface the code consumes (point patch with an if-match     *)
(* precondition, transactional batch per partition key, paged query).      *)
(*                                                                         *)
(* Strings the code transforms (categories) are sequences of characters,   *)
(* so that lower(), strip() and UPPER() are computed, not assumed.         *)
(***************************************************************************)
EXTENDS Integers, Sequences, FiniteSets, TLC

VARIABLES
    store,      \* the container: a set of stored items
    nextEtag,   \* the next version tag the store hands out
    nextId,     \* the next fresh identifier uuid4() yields
    bpc,        \* position of the request being served: idle, running, returned
    bop,        \* the operation being served
    binput,     \* the items of the batch request
    groups,     \* the per-category dict of the batch call, in insertion order
    tasks,      \* one record per group task created by the batch call
    bresult,    \* the list the batch call returned
    last,       \* the single-item call last served: inputs, store calls, outcome
    tagOf,      \* per client, the version tag it last read
    wins,       \* <<id, tag>> pairs a conditional update has succeeded with
    scan        \* the paginating client: filter, page size, token, ids seen

vars == <<store, nextEtag, nextId, bpc, bop, binput, groups, tasks, bresult,
          last, tagOf, wins, scan>>

batchVars == <<bpc, bop, binput, groups, tasks, bresult>>

-----------------------------------------------------------------------------
(* Bounds of the model. *)

MaxBatch == 3       \* longest batch request
MaxEtag == 5        \* version tags the store hands out before writes stop
MaxPageSize == 2    \* largest max_items a listing is called with
MaxEmptyPages == 1  \* empty pages the store may yield during one scan

-----------------------------------------------------------------------------
(* Strings. *)

Lower(c) == CASE c = "A" -> "a" [] c = "B" -> "b" [] OTHER -> c

Upper(c) == CASE c = "a" -> "A" [] c = "b" -> "B" [] OTHER -> c

IsSpace(c) == c = " "

str_lower(s) == [i \in 1..Len(s) |-> Lower(s[i])]

str_upper(s) == [i \in 1..Len(s) |-> Upper(s[i])]

RECURSIVE lstrip(_)
lstrip(s) == IF s # <<>> /\ IsSpace(Head(s)) THEN lstrip(Tail(s)) ELSE s

RECURSIVE rstrip(_)
rstrip(s) ==
    IF s # <<>> /\ IsSpace(s[Len(s)]) THEN rstrip(SubSeq(s, 1, Len(s) - 1)) ELSE s

str_strip(s) == rstrip(lstrip(s))

normalize_category(category) == str_strip(str_lower(category))

(* The category values requests carry. *)
Categories == {<<"A">>, <<"a">>, <<"b">>}

(* The filter values listings are called with. *)
Filters == Categories \cup {<<"a", " ">>}


-----------------------------------------------------------------------------
(* Items and the container (the environment). *)

(* The absence of an if-match precondition on a store operation. *)
NoEtag == 0

(* A required field a stored record lacks. *)
Missing == "<missing>"

(* A field of ProductUpdate the request did not set. *)
Unset == "<unset>"

Item(id, category, etag, name, quantity, last_updated) ==
    [id |-> id, category |-> category, etag |-> etag, name |-> name,
     quantity |-> quantity, last_updated |-> last_updated]

NoItem == Item(0, <<>>, NoEtag, Missing, Missing, Missing)

(* The container's partition key path is /category: an item lives in the
   partition named by its category field, compared exactly. *)
Lookup(st, id, pk) == {it \in st : it.id = id /\ it.category = pk}

Exists(st, id, pk) == Lookup(st, id, pk) # {}

TheItem(st, id, pk) == CHOOSE it \in Lookup(st, id, pk) : TRUE

SetField(it, path, value) ==
    CASE path = "name" -> [it EXCEPT !.name = value]
      [] path = "quantity" -> [it EXCEPT !.quantity = value]
      [] path = "last_updated" -> [it EXCEPT !.last_updated = value]
      [] OTHER -> it

RECURSIVE ApplyPatch(_, _)
ApplyPatch(it, ops) ==
    IF ops = <<>> THEN it
    ELSE ApplyPatch(SetField(it, Head(ops).path, Head(ops).value), Tail(ops))

(* One operation of the store on a working copy: the status code, the copy
   after it and the item it answers with. A precondition other than NoEtag
   must equal the item's current version tag; every write assigns the tag n. *)
StoreOp(st, pk, op, n) ==
    CASE op.kind = "create" ->
            IF Exists(st, op.id, pk) THEN [code |-> 409, st |-> st, item |-> NoItem]
            ELSE IF op.body.category # pk THEN [code |-> 400, st |-> st, item |-> NoItem]
            ELSE LET it == [op.body EXCEPT !.etag = n]
                 IN [code |-> 201, st |-> st \cup {it}, item |-> it]
      [] op.kind = "patch" ->
            IF ~Exists(st, op.id, pk) THEN [code |-> 404, st |-> st, item |-> NoItem]
            ELSE LET old == TheItem(st, op.id, pk) IN
                 IF op.if_match # NoEtag /\ op.if_match # old.etag
                 THEN [code |-> 412, st |-> st, item |-> NoItem]
                 ELSE LET it == [ApplyPatch(old, op.patch) EXCEPT !.etag = n]
                      IN [code |-> 200, st |-> (st \ {old}) \cup {it}, item |-> it]
      [] OTHER ->
            IF ~Exists(st, op.id, pk) THEN [code |-> 404, st |-> st, item |-> NoItem]
            ELSE [code |-> 204, st |-> st \ {TheItem(st, op.id, pk)}, item |-> NoItem]

(* The per-operation status of a transactional batch that failed at
   error_index: the failing operation carries its own code, every other
   operation 424 (failed dependency). *)
FailedResponses(len, error_index, code) ==
    [i \in 1..len |-> [statusCode |-> IF i = error_index THEN code ELSE 424]]

(* Runs ops[i..] on the working copy w, handing out tags from n on. *)
RECURSIVE RunOps(_, _, _, _, _, _)
RunOps(w, pk, ops, i, n, results) ==
    IF i > Len(ops)
    THEN [status |-> "ok", st |-> w, n |-> n, results |-> results,
          operation_responses |-> <<>>]
    ELSE LET r == StoreOp(w, pk, ops[i], n) IN
         IF r.code >= 400
         THEN [status |-> "CosmosBatchOperationError", st |-> w, n |-> n,
               results |-> <<>>,
               operation_responses |-> FailedResponses(Len(ops), i, r.code)]
         ELSE RunOps(r.st, pk, ops, i + 1, n + 1, Append(results, r.item))

(* Faults of the store and of the transport, chosen by the environment. *)
Faults == {"none", "http", "other"}

(* The shapes in which the store may answer a batch that succeeded: the
   items themselves, or operation results without a top-level id. *)
Shapes == {"item", "operation_result"}

(* container.execute_item_batch: all operations of the batch commit, or none
   does. *)
execute_item_batch(st, ops, pk, n, fault, shape) ==
    LET run == RunOps(st, pk, ops, 1, n, <<>>) IN
    CASE fault = "http" ->
            [status |-> "CosmosHttpResponseError", st |-> st, n |-> n,
             results |-> <<>>, operation_responses |-> <<>>]
      [] fault = "other" ->
            [status |-> "Exception", st |-> st, n |-> n,
             results |-> <<>>, operation_responses |-> <<>>]
      [] OTHER ->
            IF run.status = "ok"
            THEN [run EXCEPT !.results =
                      [i \in 1..Len(run.results) |->
                          [shape |-> shape, body |-> run.results[i]]]]
            ELSE [run EXCEPT !.st = st]

NoResponse ==
    [status |-> "none", st |-> {}, n |-> 0, results |-> <<>>,
     operation_responses |-> <<>>]

-----------------------------------------------------------------------------
(* Models and conversions of models/product.py. *)

(* ProductResponse.model_validate: the fields of the response model, the
   version tag read from _etag; extra fields are ignored. *)
ProductResponse(raw) ==
    [id |-> raw.id, name |-> raw.name, category |-> raw.category,
     quantity |-> raw.quantity, etag |-> raw.etag, status |-> "active",
     last_updated |-> raw.last_updated]

(* Whether model_validate accepts the raw record: the required fields. *)
Validates(raw) ==
    /\ raw.name # Missing
    /\ raw.quantity # Missing
    /\ raw.etag # NoEtag
    /\ raw.last_updated # Missing

(* model_dump() without exclude_unset: every field of the model, None for
   the fields the request did not set. *)
model_dump_all(changes) ==
    << <<"name", changes.name>>, <<"quantity", changes.quantity>> >>

(* ProductUpdate.model_dump(exclude_unset=True): the fields the request set,
   in the order the model declares them. *)
model_dump_exclude_unset(changes) ==
    (IF changes.name # Unset THEN << <<"name", changes.name>> >> ELSE <<>>)
    \o (IF changes.quantity # Unset THEN << <<"quantity", changes.quantity>> >>
        ELSE <<>>)

(* update_dict["last_updated"] = now *)
with_last_updated(update_dict) == Append(update_dict, <<"last_updated", "now">>)

SystemFields == {"id", "category", "_etag"}

(* One set operation per key of update_dict that is no system field. *)
patch_operations(update_dict) ==
    LET kept == SelectSeq(update_dict, LAMBDA kv : kv[1] \notin SystemFields)
    IN [i \in 1..Len(kept) |->
           [op |-> "set", path |-> kept[i][1], value |-> kept[i][2]]]

NoBody == NoItem

BatchOp(kind, id, body, patch, if_match) ==
    [kind |-> kind, id |-> id, body |-> body, patch |-> patch,
     if_match |-> if_match]

-----------------------------------------------------------------------------
(* product_crud_batch.py: grouping. *)

(* by_category[key] = [item]: the group is replaced, not extended. *)
group_append_overwrite(gs, key, i) ==
    IF \E g \in 1..Len(gs) : gs[g].key = key
    THEN [g \in 1..Len(gs) |->
             IF gs[g].key = key THEN [gs[g] EXCEPT !.items = <<i>>] ELSE gs[g]]
    ELSE Append(gs, [key |-> key, items |-> <<i>>])

(* by_category[key].insert(0, item): the newest item first. *)
group_append_front(gs, key, i) ==
    IF \E g \in 1..Len(gs) : gs[g].key = key
    THEN [g \in 1..Len(gs) |->
             IF gs[g].key = key THEN [gs[g] EXCEPT !.items = <<i>> \o @]
             ELSE gs[g]]
    ELSE Append(gs, [key |-> key, items |-> <<i>>])

(* The key a batch item is grouped under: its category as submitted. *)
group_key(item) == item.category

(* by_category[key].append(item) on a defaultdict(list). Dict order is
   insertion order; an item is named by its index in the request. *)
group_append(gs, key, i) ==
    IF \E g \in 1..Len(gs) : gs[g].key = key
    THEN [g \in 1..Len(gs) |->
             IF gs[g].key = key THEN [gs[g] EXCEPT !.items = Append(@, i)]
             ELSE gs[g]]
    ELSE Append(gs, [key |-> key, items |-> <<i>>])

RECURSIVE group_from(_, _, _)
group_from(items, i, gs) ==
    IF i > Len(items) THEN gs
    ELSE group_from(items, i + 1, group_append(gs, group_key(items[i]), i))

group_by_category(items) == group_from(items, 1, <<>>)

(* The requests of a group, in group order. *)
GroupItems(items, g) == [k \in 1..Len(g.items) |-> items[g.items[k]]]

-----------------------------------------------------------------------------
(* product_crud_batch.py: the operations a group task submits. *)

(* A batch patch operation submitted without the precondition. *)
if_match_etag_dropped(etag) == NoEtag

(* The precondition a batch patch operation carries. *)
if_match_etag(etag) == etag

(* Ids taken from the position in the group instead of uuid4(). *)
create_ops_index_ids(reqs, first) ==
    [i \in 1..Len(reqs) |->
        BatchOp("create", i,
                Item(i, reqs[i].category, NoEtag, reqs[i].name,
                     reqs[i].quantity, "now"),
                <<>>, NoEtag)]

(* process_category_creates: a fresh id per product, the category kept as
   submitted. *)
create_ops(reqs, first) ==
    [i \in 1..Len(reqs) |->
        BatchOp("create", first + i - 1,
                Item(first + i - 1, reqs[i].category, NoEtag, reqs[i].name,
                     reqs[i].quantity, "now"),
                <<>>, NoEtag)]

(* process_category_updates: an item without patch operations is skipped. *)
RECURSIVE update_ops(_)
update_ops(reqs) ==
    IF reqs = <<>> THEN <<>>
    ELSE LET u == Head(reqs)
             json_patch_operations ==
                 patch_operations(
                     with_last_updated(model_dump_exclude_unset(u.changes)))
         IN (IF json_patch_operations = <<>> THEN <<>>
             ELSE <<BatchOp("patch", u.id, NoBody, json_patch_operations,
                            if_match_etag(u.etag))>>)
            \o update_ops(Tail(reqs))

(* process_category_deletes *)
delete_ops(reqs) ==
    [i \in 1..Len(reqs) |-> BatchOp("delete", reqs[i].id, NoBody, <<>>, NoEtag)]

batch_operations_for_db(op, reqs, first) ==
    CASE op = "create" -> create_ops(reqs, first)
      [] op = "update" -> update_ops(reqs)
      [] OTHER -> delete_ops(reqs)

(* One store call per operation instead of one per group. *)
submitted_one_by_one(category_pk, ops) ==
    [i \in 1..Len(ops) |->
        [partition_key |-> category_pk, batch_operations |-> <<ops[i]>>]]

(* The store calls a group task makes: with no operation it returns before
   the call; otherwise one execute_item_batch with all the operations of the
   group, the group's key as partition key. *)
submitted_batches(category_pk, ops) ==
    IF ops = <<>> THEN <<>>
    ELSE <<[partition_key |-> category_pk, batch_operations |-> ops]>>

(* The loop over batch_results: a result that is a dict with an id is
   validated and kept, any other result is logged and left out. *)
collect_results(results) ==
    LET kept == SelectSeq(results, LAMBDA r : r.shape = "item" /\ r.body.id # 0)
    IN [i \in 1..Len(kept) |-> ProductResponse(kept[i].body)]

(* A task that gives up its own successes when another group has failed. *)
task_result_unless_any_failed(op, resp, reqs) ==
    IF resp.status # "ok" THEN <<>>
    ELSE IF \E h \in 1..Len(tasks) : tasks[h].resp.status \notin {"ok", "none"}
    THEN <<>>
    ELSE IF op = "delete" THEN [i \in 1..Len(reqs) |-> reqs[i].id]
    ELSE collect_results(resp.results)

(* A delete task that returns its ids whatever the store answered. *)
task_result_ids_always(op, resp, reqs) ==
    IF op = "delete" THEN [i \in 1..Len(reqs) |-> reqs[i].id]
    ELSE IF resp.status = "ok" THEN collect_results(resp.results)
    ELSE <<>>

(* What a group task returns: the except branches only log. *)
task_result(op, resp, reqs) ==
    IF resp.status = "ok"
    THEN IF op = "delete" THEN [i \in 1..Len(reqs) |-> reqs[i].id]
         ELSE collect_results(resp.results)
    ELSE <<>>

(* The except branch for CosmosBatchOperationError: the first failed index
   is logged, then one line per operation whose statusCode is 400 or more.
   The other except branches log one line for the group. *)
logged_errors(resp, ops) ==
    CASE resp.status = "CosmosBatchOperationError" ->
            <<[group |-> TRUE, id |-> 0, statusCode |-> 0]>>
            \o LET n == IF Len(resp.operation_responses) <= Len(ops)
                        THEN Len(resp.operation_responses) ELSE Len(ops)
                   failed == SelectSeq([i \in 1..n |->
                                 [group |-> FALSE, id |-> ops[i].id,
                                  statusCode |->
                                      resp.operation_responses[i].statusCode]],
                                 LAMBDA l : l.statusCode >= 400)
               IN failed
      [] resp.status \in {"CosmosHttpResponseError", "Exception"} ->
            <<[group |-> TRUE, id |-> 0, statusCode |-> 0]>>
      [] OTHER -> <<>>

(* [x for category_results in results for x in category_results] *)
RECURSIVE flatten(_)
flatten(results) ==
    IF results = <<>> THEN <<>> ELSE Head(results) \o flatten(Tail(results))

(* The batch functions return one list, the successes: the return value has
   no list of failures. *)
failed_list == <<>>

-----------------------------------------------------------------------------
(* product_crud.py: list_products, and the paged query of the store. *)

(* continuation_token=None *)
NoToken == 0

Min(a, b) == IF a <= b THEN a ELSE b

(* The items of S by ascending id: the i-th is the one with i - 1 items of
   smaller id. Within a partition ids are unique. *)
SortById(S) ==
    [i \in 1..Cardinality(S) |->
        CHOOSE x \in S : Cardinality({y \in S : y.id < x.id}) = i - 1]

(* container.query_items: the items of the partition partition_key whose
   category equals the parameter under UPPER, in the store's order. *)
query_items(st, category_param, partition_key) ==
    SortById({it \in st :
        /\ it.category = partition_key
        /\ str_upper(it.category) = str_upper(category_param)})

(* The partition key list_products hands to query_items. *)
query_partition_key(category, normalized_category) == category

(* by_page called without the caller's token. *)
by_page_token_dropped(continuation_token) == NoToken

(* by_page resuming where the call before stopped when it is given no token:
   a listing that keeps its cursor between calls. *)
by_page_token_resumed(continuation_token) ==
    IF continuation_token = NoToken THEN scan.call.token_out
    ELSE continuation_token

(* query_iterator.by_page(continuation_token) *)
by_page_token(continuation_token) == continuation_token

(* A token is the index of the next result; no token is the first. *)
PageStart(token) == IF token = NoToken THEN 1 ELSE token

(* What the store may do for one page: put k results on it (none only while
   results remain, or at the end), and hand out a token with the last page
   (trailing) or not. *)
PageChoice(results, token, max_items, k, trailing) ==
    LET remaining == Len(results) - PageStart(token) + 1 IN
    /\ k \in 0..Min(max_items, remaining)
    /\ remaining <= 0 => k = 0 /\ ~trailing
    /\ PageStart(token) + k <= Len(results) => ~trailing

(* page_iterator.continuation_token after the page *)
page_continuation_token(results, token, k, trailing) ==
    IF PageStart(token) + k <= Len(results) \/ trailing
    THEN PageStart(token) + k
    ELSE NoToken

(* Every record of the page converted, valid or not. *)
validated_unchecked(page_items) ==
    [i \in 1..Len(page_items) |-> ProductResponse(page_items[i])]

(* The loop over page_items: a record that does not validate is skipped. *)
validated(page_items) ==
    LET kept == SelectSeq(page_items, Validates)
    IN [i \in 1..Len(kept) |-> ProductResponse(kept[i])]

(* The page iterator advanced again when a page yields no item. *)
pages_requested_until_items(page_items) ==
    IF validated(page_items) = <<>> THEN 2 ELSE 1

(* page = await anext(page_iterator): the call advances the page iterator
   once, whatever the page holds. *)
pages_requested(page_items) == 1

(* An empty page taken for the end of the results. *)
next_continuation_token_none_on_empty(page_items, store_token) ==
    IF page_items = <<>> THEN NoToken ELSE store_token

(* next_continuation_token = page_iterator.continuation_token *)
next_continuation_token(page_items, store_token) == store_token

(* list_products: one page of the query and the token the store gave with
   it. When the iterator has no page (stop), it raises StopAsyncIteration
   and the call returns no item and no token. *)
list_products(st, category, continuation_token, max_items, k, trailing, stop) ==
    LET normalized_category == normalize_category(category)
        results == query_items(st, normalized_category,
                               query_partition_key(category, normalized_category))
        token == by_page_token(continuation_token)
        page_items == SubSeq(results, PageStart(token), PageStart(token) + k - 1)
    IN IF stop
       THEN [items |-> <<>>, continuation_token |-> NoToken,
             pages_requested |-> pages_requested(<<>>)]
       ELSE [items |-> validated(page_items),
             continuation_token |->
                 next_continuation_token(page_items,
                     page_continuation_token(results, token, k, trailing)),
             pages_requested |-> pages_requested(page_items)]

(* The choices of the store that list_products can meet for a call. *)
ListChoice(st, category, continuation_token, max_items, k, trailing, stop) ==
    LET results == query_items(st, normalize_category(category),
                       query_partition_key(category, normalize_category(category)))
        token == by_page_token(continuation_token)
    IN /\ PageChoice(results, token, max_items, k, trailing)
       /\ stop => PageStart(token) > Len(results)

-----------------------------------------------------------------------------
(* Requests. *)

SeqsUpTo(S, n) == UNION {[1..k -> S] : k \in 0..n}

NoChanges == [name |-> Unset, quantity |-> Unset]

Patches ==
    {NoChanges, [name |-> "n2", quantity |-> Unset],
     [name |-> Unset, quantity |-> "q2"], [name |-> "n2", quantity |-> "q2"]}

CreatePool == {[category |-> c, name |-> "n1", quantity |-> "q1"] : c \in Categories}

(* Batch update items: a current tag, a stale tag, a category in another
   case, and an item that sets no field. *)
UpdatePool ==
    {[id |-> 1, category |-> <<"a">>, etag |-> 1,
      changes |-> [name |-> "n2", quantity |-> Unset]],
     [id |-> 1, category |-> <<"A">>, etag |-> 1,
      changes |-> [name |-> Unset, quantity |-> "q2"]],
     [id |-> 2, category |-> <<"b">>, etag |-> 1,
      changes |-> [name |-> "n2", quantity |-> "q2"]],
     [id |-> 2, category |-> <<"b">>, etag |-> 2, changes |-> NoChanges]}

DeletePool ==
    {[id |-> 1, category |-> <<"a">>], [id |-> 1, category |-> <<"A">>],
     [id |-> 2, category |-> <<"b">>]}

BatchInputs(op) ==
    CASE op = "create" -> SeqsUpTo(CreatePool, MaxBatch)
      [] op = "update" -> SeqsUpTo(UpdatePool, MaxBatch)
      [] OTHER -> SeqsUpTo(DeletePool, MaxBatch)

BatchOps == {"create", "update", "delete"}

Clients == {"c1", "c2"}

ItemIds == {1, 2}

(* What the clients of the single-item update send: one item, under its
   category in another case or under a category it is not stored in. *)
GateIds == {1}

GateCategories == {<<"A">>, <<"b">>}

GatePatches ==
    {NoChanges, [name |-> "n2", quantity |-> Unset],
     [name |-> Unset, quantity |-> "q2"]}

(* Two products created one by one: create_product stores the normalized
   category. *)
InitStore ==
    {Item(1, <<"a">>, 1, "n1", "q1", "t0"), Item(2, <<"b">>, 2, "n1", "q1", "t0")}

NoTask ==
    [pc |-> "none", ops |-> <<>>, calls |-> <<>>, resp |-> NoResponse,
     result |-> <<>>, logged |-> <<>>, seq |-> 0]

NoCall ==
    [op |-> "none", id |-> 0, category |-> <<>>, updates |-> NoChanges,
     etag |-> NoEtag, fault |-> "none", calls |-> <<>>, code |-> 0,
     outcome |-> "none", result |-> NoItem, before |-> NoItem,
     after |-> NoItem, changed |-> FALSE]

(* What one call of list_products was given by its caller and by the store,
   and what it returned; after_token is the token the call before it had
   returned. *)
NoPageCall ==
    [made |-> FALSE, filter |-> <<>>, size |-> 0, token_in |-> NoToken,
     after_token |-> NoToken, stop |-> FALSE, raw |-> <<>>,
     store_token |-> NoToken, items |-> <<>>, token_out |-> NoToken,
     pages_requested |-> 0]

NoScan ==
    [pc |-> "idle", filter |-> <<>>, size |-> 0, token |-> NoToken,
     seen |-> <<>>, pages |-> 0, empties |-> 0, call |-> NoPageCall]

(* A store with more than a page of one category: a record that lacks a
   required field, and products a batch create stored under the category it
   was given. *)
ListStore ==
    {Item(1, <<"a">>, 1, "n1", "q1", "t0"), Item(2, <<"a">>, 2, "n1", "q1", "t0"),
     Item(3, <<"a">>, 3, Missing, "q1", "t0"), Item(4, <<"a">>, 4, "n1", "q1", "t0"),
     Item(5, <<"A">>, 5, "n1", "q1", "t0"), Item(6, <<"b">>, 6, "n1", "q1", "t0")}

ListStores == {ListStore, InitStore, {}}

-----------------------------------------------------------------------------
(* exceptions.py and product_crud.py: the single-item operations. *)

(* The classes exceptions.py defines. *)
DefinedExceptions ==
    {"ApplicationError", "ProductNotFoundError", "ProductAlreadyExistsError",
     "DatabaseError"}

(* raise Cls(...): product_crud.py takes every class it raises from
   inventory_api.exceptions; a name that module does not define is not bound
   (the import fails with ImportError), so no failure of that type reaches
   the caller. *)
raise(cls) == IF cls \in DefinedExceptions THEN cls ELSE "ImportError"

(* patch_item called without the if-match header. *)
if_match_header_dropped(etag) == NoEtag

(* headers={"if-match": etag} *)
if_match_header(etag) == etag

(* The check for an empty update left out. *)
is_empty_update_unchecked(update_dict) == FALSE

(* if not update_dict *)
is_empty_update(update_dict) == update_dict = <<>>

PointCall(api, id, pk, patch, if_match) ==
    [api |-> api, id |-> id, partition_key |-> pk, patch |-> patch,
     if_match |-> if_match]

(* container.patch_item: the point patch of the store, or a fault. *)
patch_item(st, call, n, fault) ==
    LET r == StoreOp(st, call.partition_key,
                     BatchOp("patch", call.id, NoBody, call.patch, call.if_match), n)
    IN CASE fault = "http" ->
                [raised |-> "CosmosHttpResponseError", code |-> 503, st |-> st,
                 item |-> NoItem]
         [] fault = "other" ->
                [raised |-> "Exception", code |-> 0, st |-> st, item |-> NoItem]
         [] OTHER ->
                IF r.code >= 400
                THEN [raised |-> "CosmosHttpResponseError", code |-> r.code,
                      st |-> st, item |-> NoItem]
                ELSE [raised |-> "none", code |-> r.code, st |-> r.st,
                      item |-> r.item]

Outcome(outcome, code, calls, st, n, result) ==
    [outcome |-> outcome, code |-> code, calls |-> calls, st |-> st, n |-> n,
     result |-> result]

(* update_product *)
update_product(st, n, product_id, category, updates, etag, fault) ==
    LET update_dict == model_dump_exclude_unset(updates) IN
    IF is_empty_update(update_dict)
    THEN Outcome("ValueError", 0, <<>>, st, n, NoItem)
    ELSE
    LET normalized_category == normalize_category(category)
        call == PointCall("patch_item", product_id, normalized_category,
                          patch_operations(with_last_updated(update_dict)),
                          if_match_header(etag))
        r == patch_item(st, call, n, fault)
    IN CASE r.raised = "none" ->
                IF Validates(r.item)
                THEN Outcome("ok", r.code, <<call>>, r.st, n + 1,
                             ProductResponse(r.item))
                ELSE Outcome(raise("DatabaseError"), r.code, <<call>>, r.st,
                             n + 1, NoItem)
         [] r.raised = "CosmosHttpResponseError" /\ r.code = 404 ->
                Outcome(raise("ProductNotFoundError"), r.code, <<call>>, st, n,
                        NoItem)
         [] r.raised = "CosmosHttpResponseError" /\ r.code = 412 ->
                Outcome(raise("PreconditionFailedError"), r.code, <<call>>, st,
                        n, NoItem)
         [] OTHER ->
                Outcome(raise("DatabaseError"), r.code, <<call>>, st, n, NoItem)

(* get_product_by_id: a point read under the normalized category. *)
get_product_by_id(st, product_id, category) ==
    LET normalized_category == normalize_category(category)
        call == PointCall("read_item", product_id, normalized_category, <<>>,
                          NoEtag)
    IN IF ~Exists(st, product_id, normalized_category)
       THEN Outcome(raise("ProductNotFoundError"), 404, <<call>>, st, 0, NoItem)
       ELSE LET it == TheItem(st, product_id, normalized_category) IN
            IF Validates(it)
            THEN Outcome("ok", 200, <<call>>, st, 0, ProductResponse(it))
            ELSE Outcome(raise("DatabaseError"), 200, <<call>>, st, 0, NoItem)

(* The stored item a single-item call addresses, NoItem when there is none. *)
Addressed(st, id, category) ==
    IF Exists(st, id, normalize_category(category))
    THEN TheItem(st, id, normalize_category(category))
    ELSE NoItem

CallRecord(op, id, category, updates, etag, fault, r, before, after, changed) ==
    [op |-> op, id |-> id, category |-> category, updates |-> updates,
     etag |-> etag, fault |-> fault, calls |-> r.calls, code |-> r.code,
     outcome |-> r.outcome, result |-> r.result, before |-> before,
     after |-> after, changed |-> changed]

-----------------------------------------------------------------------------
(* The batch call: create_products, update_products, delete_products. *)

Init ==
    /\ store = InitStore
    /\ nextEtag = 3
    /\ nextId = 3
    /\ bpc = "idle"
    /\ bop = "none"
    /\ binput = <<>>
    /\ groups = <<>>
    /\ tasks = <<>>
    /\ bresult = <<>>
    /\ last = NoCall
    /\ tagOf = [c \in Clients |-> NoEtag]
    /\ wins = <<>>
    /\ scan = NoScan

(* The check for an empty request left out. *)
is_empty_batch_unchecked(items) == FALSE

(* if not batch_create.items: return [] *)
is_empty_batch(items) == items = <<>>

(* The place of a task that finishes now among the tasks that finished. *)
finish_seq(ts) == Cardinality({g \in 1..Len(ts) : ts[g].pc = "done"}) + 1

(* The task results in the order in which the tasks finished. *)
results_as_completed(ts) ==
    [i \in 1..Len(ts) |->
        ts[CHOOSE g \in 1..Len(ts) : ts[g].seq = i].result]

(* The list gather returns: the results in the order of the tasks it was
   given, whenever each finished. *)
gather_results(ts) == [g \in 1..Len(ts) |-> ts[g].result]

(* gather taken to be done with the first task that is. *)
gather_first_done(ts) == ts = <<>> \/ \E g \in 1..Len(ts) : ts[g].pc = "done"

(* results = await asyncio.gather over the tasks: done when every task is. *)
gather_done(ts) == \A g \in 1..Len(ts) : ts[g].pc = "done"

(* The call up to its gather: an empty request returns at once; otherwise
   the items are grouped and one task per group is created. *)
BatchCall(op, items) ==
    /\ bpc = "idle"
    /\ bop' = op
    /\ binput' = items
    /\ IF is_empty_batch(items)
       THEN /\ bpc' = "returned"
            /\ groups' = <<>>
            /\ tasks' = <<>>
       ELSE /\ bpc' = "running"
            /\ groups' = group_by_category(items)
            /\ tasks' = [g \in 1..Len(groups') |-> [NoTask EXCEPT !.pc = "created"]]
    /\ bresult' = <<>>
    /\ UNCHANGED <<store, nextEtag, nextId, last, tagOf, wins, scan>>

(* A group task runs to its await: it builds the group's operations and
   submits them as one batch; with no operation it returns at once. The
   event loop starts the tasks in the order of their creation. *)
TaskRun(g) ==
    /\ bpc = "running"
    /\ tasks[g].pc = "created"
    /\ \A h \in 1..(g - 1) : tasks[h].pc # "created"
    /\ LET reqs == GroupItems(binput, groups[g])
           ops == batch_operations_for_db(bop, reqs, nextId)
       IN /\ tasks' = [tasks EXCEPT ![g] =
                 [@ EXCEPT !.pc = IF ops = <<>> THEN "done" ELSE "awaiting",
                           !.seq = IF ops = <<>> THEN finish_seq(tasks) ELSE 0,
                           !.ops = ops,
                           !.calls = submitted_batches(groups[g].key, ops)]]
          /\ nextId' = IF bop = "create" THEN nextId + Len(reqs) ELSE nextId
    /\ UNCHANGED <<store, nextEtag, bpc, bop, binput, groups, bresult, last,
                   tagOf, wins, scan>>

(* The store executes the batch a task awaits. The shape of the results is
   a choice only where there are results to shape. *)
StoreExec(g, fault, shape) ==
    /\ bpc = "running"
    /\ tasks[g].pc = "awaiting"
    /\ fault # "none" \/ bop = "delete" => shape = "item"
    /\ LET resp == execute_item_batch(store,
                                      tasks[g].calls[1].batch_operations,
                                      tasks[g].calls[1].partition_key,
                                      nextEtag, fault, shape)
       IN /\ store' = resp.st
          /\ nextEtag' = resp.n
          /\ tasks' = [tasks EXCEPT ![g] =
                 [@ EXCEPT !.pc = "responded",
                           !.resp = [resp EXCEPT !.st = {}, !.n = 0]]]
    /\ UNCHANGED <<nextId, bpc, bop, binput, groups, bresult, last, tagOf,
                   wins, scan>>

(* The task resumes with the store's answer and returns its list. *)
TaskFinish(g) ==
    /\ bpc = "running"
    /\ tasks[g].pc = "responded"
    /\ tasks' = [tasks EXCEPT ![g] =
           [@ EXCEPT !.pc = "done",
                     !.seq = finish_seq(tasks),
                     !.result = task_result(bop, tasks[g].resp,
                                            GroupItems(binput, groups[g])),
                     !.logged = logged_errors(tasks[g].resp, tasks[g].ops)]]
    /\ UNCHANGED <<store, nextEtag, nextId, bpc, bop, binput, groups, bresult,
                   last, tagOf, wins, scan>>

(* asyncio.gather returns once every task is done; the call flattens the
   task results in task order and returns. *)
Gather ==
    /\ bpc = "running"
    /\ gather_done(tasks)
    /\ bresult' = flatten(gather_results(tasks))
    /\ bpc' = "returned"
    /\ UNCHANGED <<store, nextEtag, nextId, bop, binput, groups, tasks, last,
                   tagOf, wins, scan>>

(* The request is cancelled while the call awaits gather: gather cancels
   the tasks that are not done, and CancelledError, which no except branch
   of the tasks or of the call catches, leaves the call without a return
   value. What the store has executed stays executed. *)
Cancel ==
    /\ bpc = "running"
    /\ tasks' = [g \in 1..Len(tasks) |->
           IF tasks[g].pc = "done" THEN tasks[g]
           ELSE [tasks[g] EXCEPT !.pc = "cancelled"]]
    /\ bresult' = <<>>
    /\ bpc' = "cancelled"
    /\ UNCHANGED <<store, nextEtag, nextId, bop, binput, groups, last, tagOf,
                   wins, scan>>

(* One call of update_product against the store. wins logs the <<id, tag>>
   pairs with which an update succeeded. *)
ServeUpdate(id, category, updates, etag, fault) ==
    LET before == Addressed(store, id, category)
        r == update_product(store, nextEtag, id, category, updates, etag, fault)
    IN /\ store' = r.st
       /\ nextEtag' = r.n
       /\ last' = CallRecord("update_product", id, category, updates, etag,
                             fault, r, before, Addressed(r.st, id, category),
                             r.st # store)
       /\ wins' = IF r.outcome = "ok" THEN Append(wins, <<id, etag>>) ELSE wins

(* The request served is a single-item update. *)
UpdateProductCall(id, category, updates, etag, fault) ==
    /\ bpc = "idle"
    /\ ServeUpdate(id, category, updates, etag, fault)
    /\ bpc' = "returned"
    /\ bop' = "update_product"
    /\ UNCHANGED <<nextId, binput, groups, tasks, bresult, tagOf, scan>>

Next ==
    \/ \E op \in BatchOps : \E items \in BatchInputs(op) : BatchCall(op, items)
    \/ \E g \in 1..Len(tasks) : TaskRun(g)
    \/ \E g \in 1..Len(tasks) : \E f \in Faults : \E s \in Shapes : StoreExec(g, f, s)
    \/ \E g \in 1..Len(tasks) : TaskFinish(g)
    \/ Gather
    \/ Cancel
    \/ \E id \in ItemIds : \E c \in Categories : \E u \in Patches :
           \E e \in 1..2 : \E f \in Faults : UpdateProductCall(id, c, u, e, f)

Spec == Init /\ [][Next]_vars

-----------------------------------------------------------------------------
(* Clients of the single-item update: each reads an item, keeps the version
   tag it saw, and later updates with that tag. *)

ClientRead(c, id, category) ==
    /\ LET r == get_product_by_id(store, id, category)
       IN /\ r.outcome = "ok"
          /\ tagOf' = [tagOf EXCEPT ![c] = r.result.etag]
    /\ UNCHANGED <<store, nextEtag, nextId, batchVars, last, wins, scan>>

ClientUpdate(c, id, category, updates, fault) ==
    /\ tagOf[c] # NoEtag
    /\ nextEtag < MaxEtag
    /\ ServeUpdate(id, category, updates, tagOf[c], fault)
    /\ UNCHANGED <<nextId, batchVars, tagOf, scan>>

GateNext ==
    \/ \E c \in Clients : \E id \in GateIds : \E cat \in GateCategories :
           ClientRead(c, id, cat)
    \/ \E c \in Clients : \E id \in GateIds : \E cat \in GateCategories :
           \E u \in GatePatches : \E f \in Faults : ClientUpdate(c, id, cat, u, f)

GateSpec == Init /\ [][GateNext]_vars

-----------------------------------------------------------------------------
(* Properties of the batch call. *)

Returned == bpc = "returned" /\ bop \in BatchOps

GroupOk(g) == tasks[g].pc = "done" /\ tasks[g].resp.status = "ok"

GroupFailed(g) ==
    tasks[g].pc = "done" /\ tasks[g].resp.status \notin {"ok", "none"}

(* The number of requests in the groups that satisfy P. *)
RequestsIn(P(_)) ==
    Cardinality({i \in 1..Len(binput) :
        \E g \in 1..Len(groups) :
            P(g) /\ \E k \in 1..Len(groups[g].items) : groups[g].items[k] = i})

(* C1: when a batch call has returned, every submitted operation is in the
   succeeded list or in the failed list: the two lists together are as long
   as the request. *)
C1_EveryOperationReported ==
    Returned => Len(bresult) + Len(failed_list) = Len(binput)

(* C2: when a batch call has returned after the store succeeded for some
   groups and failed for others, the succeeded list holds the items of the
   groups that succeeded and the failed list one detail per operation of the
   groups that failed. *)
C2_PartialFailureReportsBothLists ==
    (/\ Returned
     /\ \E g \in 1..Len(groups) : GroupOk(g)
     /\ \E g \in 1..Len(groups) : GroupFailed(g)
     /\ \A g \in 1..Len(groups) :
            \A k \in 1..Len(tasks[g].resp.results) :
                tasks[g].resp.results[k].shape = "item")
    => /\ Len(bresult) = RequestsIn(GroupOk)
       /\ Len(failed_list) = RequestsIn(GroupFailed)

(* C7: the groups of a batch call never hold two keys that differ only by
   letter case. *)
C7_NoGroupsDifferingByCase ==
    \A g, h \in 1..Len(groups) :
        g # h => str_lower(groups[g].key) # str_lower(groups[h].key)

(* C8: the groups of a batch call of N requests over K distinct category
   values are K groups whose sizes sum to N; every request is at exactly one
   place of exactly one group, the group of its own category. *)
C8_GroupingPartitionsTheRequest ==
    bpc \in {"running", "returned"} /\ bop \in BatchOps =>
        /\ Len(groups) = Cardinality({binput[i].category : i \in 1..Len(binput)})
        /\ Len(flatten([g \in 1..Len(groups) |-> groups[g].items])) = Len(binput)
        /\ \A i \in 1..Len(binput) :
              /\ Cardinality({gk \in (1..Len(groups)) \X (1..MaxBatch + 1) :
                     /\ gk[2] <= Len(groups[gk[1]].items)
                     /\ groups[gk[1]].items[gk[2]] = i}) = 1
              /\ \A g \in 1..Len(groups) :
                     (\E k \in 1..Len(groups[g].items) : groups[g].items[k] = i)
                     => groups[g].key = binput[i].category

(* Three requests over two categories have been grouped. *)
C8_Witness ==
    /\ bpc = "running"
    /\ Len(binput) = 3
    /\ Len(groups) = 2
    /\ \E g \in 1..Len(groups) : Len(groups[g].items) = 2

-----------------------------------------------------------------------------
(* Properties of the single-item update. *)

IsUpdate == last.op = "update_product"

(* The call carried a tag other than the current tag of the item it
   addressed, and the store answered it. *)
StaleUpdate ==
    /\ IsUpdate
    /\ last.updates # NoChanges
    /\ last.before # NoItem
    /\ last.etag # last.before.etag
    /\ last.fault = "none"

(* C3: an update whose tag differs from the item's current tag ends in
   PreconditionFailed and leaves the stored item as it was. *)
C3_StaleTagPreconditionFailed ==
    StaleUpdate =>
        /\ last.outcome = "PreconditionFailedError"
        /\ last.after = last.before
        /\ ~last.changed

(* C4: no two updates succeed with the same tag of the same item, and a
   successful update leaves the item with a tag that is neither the one it
   replaced nor one an update has succeeded with. *)
C4_TagValidForOneWrite ==
    /\ \A i, j \in 1..Len(wins) : i # j => wins[i] # wins[j]
    /\ IsUpdate /\ last.outcome = "ok" =>
          /\ last.after.etag # last.before.etag
          /\ last.before.etag = last.etag
          /\ \A i \in 1..Len(wins) : wins[i] # <<last.id, last.after.etag>>

(* Both clients hold the tag an update has succeeded with, and the update
   served last carried that tag and was refused. *)
C4_Witness ==
    /\ IsUpdate
    /\ last.code = 412
    /\ tagOf["c1"] = tagOf["c2"]
    /\ \E i \in 1..Len(wins) : wins[i] = <<last.id, last.etag>>

(* C5: every patch that reaches the store carries the version tag of the
   request it comes from as its precondition, on the single-item path and in
   a batch. *)
C5_UpdatesCarryThePrecondition ==
    /\ \A g \in 1..Len(tasks) : \A k \in 1..Len(tasks[g].ops) :
          tasks[g].ops[k].kind = "patch" =>
              /\ tasks[g].ops[k].if_match # NoEtag
              /\ Len(tasks[g].ops) = Len(groups[g].items)
              /\ tasks[g].ops[k].if_match = binput[groups[g].items[k]].etag
    /\ \A k \in 1..Len(last.calls) :
          last.calls[k].api = "patch_item" => last.calls[k].if_match = last.etag

(* A batch update whose patch the store applied under its precondition. *)
C5_Witness ==
    /\ bop = "update"
    /\ \E g \in 1..Len(tasks) :
          /\ tasks[g].pc = "responded"
          /\ tasks[g].resp.status = "ok"
          /\ \E k \in 1..Len(tasks[g].ops) : tasks[g].ops[k].if_match = 1

(* C6: an update that sets no field ends in the input error ValueError
   (InvalidRequest), calls the store not once and changes nothing in it. *)
C6_EmptyUpdateRejectedBeforeTheStore ==
    IsUpdate /\ last.updates = NoChanges =>
        /\ last.outcome = "ValueError"
        /\ last.calls = <<>>
        /\ ~last.changed
        /\ last.after = last.before

(* An update that sets no field was served for an item that exists, by a
   client holding its current tag. *)
C6_Witness ==
    /\ IsUpdate
    /\ last.updates = NoChanges
    /\ last.before # NoItem
    /\ last.etag = last.before.etag
    /\ last.outcome = "ValueError"

-----------------------------------------------------------------------------
(* A client that pages through a listing: it starts without a token and
   feeds every token it gets into its next call, with the same filter and
   page size. Nothing writes to the store meanwhile. *)

ListInit ==
    /\ store \in ListStores
    /\ nextEtag = 7
    /\ nextId = 7
    /\ bpc = "idle"
    /\ bop = "none"
    /\ binput = <<>>
    /\ groups = <<>>
    /\ tasks = <<>>
    /\ bresult = <<>>
    /\ last = NoCall
    /\ tagOf = [c \in Clients |-> NoEtag]
    /\ wins = <<>>
    /\ scan = NoScan

ScanStart(filter, size) ==
    /\ scan.pc \in {"idle", "done"}
    /\ scan' = [NoScan EXCEPT !.pc = "scanning", !.filter = filter, !.size = size]
    /\ UNCHANGED <<store, nextEtag, nextId, batchVars, last, tagOf, wins>>

(* The record of one call: the page and the token are the store's (the
   results from the token by_page was given), the items and the returned
   token are the call's. *)
PageCall(st, sc, k, trailing, stop, page) ==
    LET results == query_items(st, normalize_category(sc.filter),
                       query_partition_key(sc.filter,
                                           normalize_category(sc.filter)))
    IN [made |-> TRUE, filter |-> sc.filter, size |-> sc.size,
        token_in |-> sc.token, after_token |-> sc.call.token_out,
        stop |-> stop,
        raw |-> IF stop THEN <<>>
                ELSE SubSeq(results, PageStart(by_page_token(sc.token)),
                            PageStart(by_page_token(sc.token)) + k - 1),
        store_token |-> IF stop THEN NoToken
                        ELSE page_continuation_token(results,
                                 by_page_token(sc.token), k, trailing),
        items |-> page.items, token_out |-> page.continuation_token,
        pages_requested |-> page.pages_requested]

(* One call of list_products. The store yields an empty page before the end
   of the results at most MaxEmptyPages times in a scan. *)
ScanPage(k, trailing, stop) ==
    /\ scan.pc = "scanning"
    /\ scan.pages < Cardinality(store) + MaxEmptyPages + 2
    /\ ListChoice(store, scan.filter, scan.token, scan.size, k, trailing, stop)
    /\ LET page == list_products(store, scan.filter, scan.token, scan.size, k,
                                 trailing, stop)
           empty == k = 0 /\ page.continuation_token # NoToken
       IN /\ empty => scan.empties < MaxEmptyPages
          /\ scan' = [scan EXCEPT
                 !.pc = IF page.continuation_token = NoToken THEN "done"
                        ELSE "scanning",
                 !.token = page.continuation_token,
                 !.seen = @ \o [i \in 1..Len(page.items) |-> page.items[i].id],
                 !.pages = @ + 1,
                 !.empties = IF empty THEN @ + 1 ELSE @,
                 !.call = PageCall(store, scan, k, trailing, stop, page)]
    /\ UNCHANGED <<store, nextEtag, nextId, batchVars, last, tagOf, wins>>

(* The caller drops the scan it is in and starts again without a token. *)
ScanRestart(filter, size) ==
    /\ scan.pc = "scanning"
    /\ scan' = [NoScan EXCEPT !.pc = "scanning", !.filter = filter,
                              !.size = size, !.call = scan.call]
    /\ UNCHANGED <<store, nextEtag, nextId, batchVars, last, tagOf, wins>>

ScanStep == \E k \in 0..MaxPageSize : \E t, s \in BOOLEAN : ScanPage(k, t, s)

ListNext ==
    \/ \E f \in Filters : \E size \in 1..MaxPageSize : ScanStart(f, size)
    \/ ScanStep

ListSpec == ListInit /\ [][ListNext]_vars /\ WF_vars(ScanStep)

(* Callers that may give up a scan at any page and start over. *)
RestartNext ==
    \/ \E f \in Filters : \E size \in 1..MaxPageSize : ScanStart(f, size)
    \/ \E f \in Filters : \E size \in 1..MaxPageSize : ScanRestart(f, size)
    \/ ScanStep

RestartSpec == ListInit /\ [][RestartNext]_vars

-----------------------------------------------------------------------------
(* Properties of the listing. *)

ItemIdsOf(items) == {items[i].id : i \in 1..Len(items)}

(* The first page of a listing when the store fills its pages. *)
FirstPage(filter, size) ==
    LET results == query_items(store, normalize_category(filter),
                       query_partition_key(filter, normalize_category(filter)))
    IN list_products(store, filter, NoToken, size, Min(size, Len(results)),
                     FALSE, FALSE)

(* C9: two listings whose filters differ only by letter case, with the same
   page size and no token, return the same items from the same store. *)
C9_ListingIgnoresFilterCase ==
    \A f1, f2 \in Filters : \A size \in 1..MaxPageSize :
        str_lower(f1) = str_lower(f2) =>
            ItemIdsOf(FirstPage(f1, size).items) = ItemIdsOf(FirstPage(f2, size).items)

(* The ids of the valid items in the result set of the scan's query. *)
ScanResultIds ==
    {it.id : it \in {x \in store :
        /\ x.category = scan.filter
        /\ str_upper(x.category) = str_upper(normalize_category(scan.filter))
        /\ Validates(x)}}

NoDuplicateSeen ==
    \A i, j \in 1..Len(scan.seen) : i # j => scan.seen[i] # scan.seen[j]

ScanComplete ==
    scan.pc = "done" => ItemIdsOf([i \in 1..Len(scan.seen) |-> [id |-> scan.seen[i]]])
                            = ScanResultIds

(* C10: a scan never sees an id twice; it ends, with no token, and has then
   seen exactly the valid items of its result set. *)
C10_ScanEnumeratesEveryItemOnce ==
    /\ [](NoDuplicateSeen /\ ScanComplete)
    /\ (scan.pc = "scanning") ~> (scan.pc = "done")

(* A scan over several pages, one of them empty and one with a record that
   was skipped, has ended. *)
C10_Witness ==
    /\ scan.pc = "done"
    /\ scan.pages >= 3
    /\ scan.empties >= 1
    /\ Len(scan.seen) = 3
    /\ Cardinality(ScanResultIds) = 3

-----------------------------------------------------------------------------
(* Properties of one call of list_products. *)

(* The result set of the query of the call served last. *)
CallResults ==
    query_items(store, normalize_category(scan.call.filter),
                query_partition_key(scan.call.filter,
                                    normalize_category(scan.call.filter)))

(* The call served last was given a page by the store. *)
PageServed == scan.call.made /\ ~scan.call.stop

(* C11: a call the store answers with an empty page and a token returns no
   item and that token; a call returns no token only when no result is left
   after its page. *)
C11_EmptyPageKeepsTheToken ==
    /\ PageServed /\ scan.call.raw = <<>> /\ scan.call.store_token # NoToken =>
          /\ scan.call.items = <<>>
          /\ scan.call.token_out = scan.call.store_token
          /\ scan.call.token_out # NoToken
    /\ scan.call.made /\ scan.call.token_out = NoToken =>
          PageStart(scan.call.token_in) + Len(scan.call.raw) > Len(CallResults)

(* The store answered a call with an empty page while results remained. *)
C11_Witness ==
    /\ PageServed
    /\ scan.call.raw = <<>>
    /\ scan.call.token_out # NoToken
    /\ PageStart(scan.call.token_in) <= Len(CallResults)

(* C12: a call advances the page iterator once: what it returns comes from
   one page of at most max_items records, and the token it returns stands
   right behind that page. *)
C12_OnePagePerCall ==
    scan.call.made =>
        /\ scan.call.pages_requested = 1
        /\ Len(scan.call.raw) <= scan.call.size
        /\ Len(scan.call.items) <= Len(scan.call.raw)
        /\ scan.call.token_out # NoToken =>
              scan.call.token_out =
                  PageStart(scan.call.token_in) + Len(scan.call.raw)

(* A call whose page held only a record that does not validate, with results
   remaining after it. *)
C12_Witness ==
    /\ PageServed
    /\ scan.call.raw # <<>>
    /\ scan.call.items = <<>>
    /\ scan.call.token_out # NoToken
    /\ scan.call.token_out <= Len(CallResults)

(* C13: a call returns the records of its page that validate, in page order,
   and the token the store gave with the page; a record that does not
   validate is left out. *)
C13_InvalidRecordsSkipped ==
    PageServed =>
        LET kept == SelectSeq(scan.call.raw, Validates)
        IN /\ scan.call.items = [i \in 1..Len(kept) |-> ProductResponse(kept[i])]
           /\ scan.call.token_out = scan.call.store_token

(* A page of a valid record and a record that does not validate. *)
C13_Witness ==
    /\ PageServed
    /\ Len(scan.call.raw) = 2
    /\ Len(scan.call.items) = 1
    /\ \E i \in 1..2 : ~Validates(scan.call.raw[i])

(* C14: a call without a token returns the first page of its result set,
   whatever calls were served before it. *)
C14_NoTokenRestartsTheScan ==
    scan.call.made /\ scan.call.token_in = NoToken =>
        LET k == Len(scan.call.raw)
            first == SelectSeq(SubSeq(CallResults, 1, k), Validates)
        IN /\ scan.call.stop => CallResults = <<>>
           /\ scan.call.raw = SubSeq(CallResults, 1, k)
           /\ scan.call.items =
                  [i \in 1..Len(first) |-> ProductResponse(first[i])]
           /\ scan.call.token_out \in {NoToken, k + 1}
           /\ k < Len(CallResults) => scan.call.token_out = k + 1

(* A call without a token served after a call that had returned a token
   pointing into the results. *)
C14_Witness ==
    /\ scan.call.made
    /\ scan.call.token_in = NoToken
    /\ scan.call.after_token > 1
    /\ scan.call.items # <<>>
    /\ scan.call.token_out # NoToken

-----------------------------------------------------------------------------
(* Properties of the group tasks of a batch call. *)

(* The entry of the succeeded list for the item with this id. *)
InSucceeded(id) ==
    \E r \in 1..Len(bresult) :
        \/ bop = "delete" /\ bresult[r] = id
        \/ bop # "delete" /\ bresult[r].id = id

TransportFailed(g) ==
    tasks[g].resp.status \in {"CosmosHttpResponseError", "Exception"}

(* C15: when the store failed the batch of a group with per-operation
   responses, the result of the call reports every operation of the group
   with the outcome its own status code tells: as failed with that code
   when it is 400 or more, as succeeded otherwise. *)
C15_BatchErrorDecodedPerOperation ==
    Returned =>
        \A g \in 1..Len(groups) :
            tasks[g].resp.status = "CosmosBatchOperationError" =>
                \A k \in 1..Len(tasks[g].ops) :
                    LET code == tasks[g].resp.operation_responses[k].statusCode
                        id == tasks[g].ops[k].id
                    IN IF code >= 400
                       THEN \E f \in 1..Len(failed_list) :
                                /\ failed_list[f].id = id
                                /\ failed_list[f].statusCode = code
                       ELSE InSucceeded(id)

(* C16: when the store call of a group failed without per-operation detail,
   the call reports no operation of the group as succeeded and the group as
   failed, with one error for the group. *)
C16_TransportFailureFailsClosed ==
    Returned =>
        \A g \in 1..Len(groups) :
            TransportFailed(g) =>
                /\ tasks[g].result = <<>>
                /\ Cardinality({f \in 1..Len(failed_list) :
                       failed_list[f].group = groups[g].key}) = 1

(* C17: a batch call with no request returns at once with empty results: it
   builds no group, creates no task and leaves the store as it was. *)
C17_EmptyBatchReturnsAtOnce ==
    bop \in BatchOps /\ binput = <<>> =>
        /\ bpc = "returned"
        /\ bresult = <<>>
        /\ failed_list = <<>>
        /\ groups = <<>>
        /\ tasks = <<>>
        /\ store = InitStore

(* A batch delete without requests has returned. *)
C17_Witness ==
    /\ bop = "delete"
    /\ binput = <<>>
    /\ bpc = "returned"

(* C18: when a batch call has returned, or was cancelled, every group task
   it created has finished: none is waiting to start, awaiting the store or
   holding an answer it has not processed. *)
C18_NoTaskOutlivesTheCall ==
    bpc \in {"returned", "cancelled"} /\ bop \in BatchOps =>
        \A g \in 1..Len(tasks) : tasks[g].pc \in {"done", "cancelled"}

(* A call with a group that succeeded and a group that failed has
   returned. *)
C18_Witness ==
    /\ Returned
    /\ \E g \in 1..Len(tasks) : GroupOk(g)
    /\ \E g \in 1..Len(tasks) : GroupFailed(g)

(* C19: when the call was cancelled, no request of a group whose task was
   cancelled is reported as succeeded, and each of them is in the failed
   list. *)
C19_CancelledOperationsReported ==
    bpc = "cancelled" =>
        \A g \in 1..Len(tasks) :
            tasks[g].pc = "cancelled" =>
                /\ tasks[g].result = <<>>
                /\ \A k \in 1..Len(groups[g].items) :
                       \E f \in 1..Len(failed_list) :
                           failed_list[f].request = groups[g].items[k]

(* The operation a group task submits for a request. *)
OperationOf(o, req) ==
    CASE bop = "create" ->
            /\ o.kind = "create"
            /\ o.body.name = req.name
            /\ o.body.quantity = req.quantity
            /\ o.body.category = req.category
      [] bop = "update" ->
            /\ o.kind = "patch"
            /\ o.id = req.id
            /\ o.if_match = req.etag
            /\ o.patch # <<>>
      [] OTHER -> o.kind = "delete" /\ o.id = req.id

(* The task of group g has run to its store call. *)
HasRun(g) ==
    \/ tasks[g].pc \in {"awaiting", "responded", "done"}
    \/ tasks[g].pc = "cancelled" /\ tasks[g].ops # <<>>

(* C20: a group task that has run has made one store call, with the key of
   its group as partition key and one operation per request of the group, in
   group order; a call that has returned has made as many store calls as it
   has groups. *)
C20_OneStoreCallPerGroup ==
    /\ \A g \in 1..Len(tasks) :
          HasRun(g) =>
              /\ Len(tasks[g].calls) = 1
              /\ tasks[g].calls[1].partition_key = groups[g].key
              /\ Len(tasks[g].calls[1].batch_operations) = Len(groups[g].items)
              /\ \A k \in 1..Len(groups[g].items) :
                     OperationOf(tasks[g].calls[1].batch_operations[k],
                                 binput[groups[g].items[k]])
    /\ Returned =>
          Len(flatten([g \in 1..Len(tasks) |-> tasks[g].calls])) = Len(groups)

(* A call of three requests in two groups has returned after the store
   answered both store calls. *)
C20_Witness ==
    /\ Returned
    /\ Len(binput) = 3
    /\ Len(groups) = 2
    /\ \A g \in 1..Len(tasks) : tasks[g].resp.status # "none"

-----------------------------------------------------------------------------
(* Properties of the order and of the frame of the operations. *)

(* C21: the operations a group task submits stand in the order in which
   their requests stand in the request of the call. *)
C21_GroupOrderIsInputOrder ==
    \A g \in 1..Len(tasks) :
        HasRun(g) =>
            LET ops == tasks[g].calls[1].batch_operations IN
            \A j, k \in 1..Len(ops) :
                j < k =>
                    /\ k <= Len(groups[g].items)
                    /\ groups[g].items[j] < groups[g].items[k]
                    /\ OperationOf(ops[j], binput[groups[g].items[j]])
                    /\ OperationOf(ops[k], binput[groups[g].items[k]])

(* The store has been handed a group of two requests that differ, with a
   request of another group between them in the input. *)
C21_Witness ==
    \E g \in 1..Len(tasks) :
        /\ tasks[g].pc = "responded"
        /\ Len(groups[g].items) = 2
        /\ groups[g].items = <<1, 3>>
        /\ binput[1] # binput[3]

Field(it, f) ==
    CASE f = "id" -> it.id
      [] f = "category" -> it.category
      [] f = "name" -> it.name
      [] OTHER -> it.quantity

(* The fields an update leaves alone: those its request does not set. The
   update stamps last_updated itself, the store assigns the version tag. *)
FrameFields(changes) ==
    {"id", "category"}
    \cup (IF changes.name = Unset THEN {"name"} ELSE {})
    \cup (IF changes.quantity = Unset THEN {"quantity"} ELSE {})

(* C22: after an update that succeeded, on the single-item path or in a
   batch, every field the request did not set has the value it had before. *)
C22_UpdateTouchesOnlyPatchedFields ==
    /\ IsUpdate /\ last.outcome = "ok" =>
          \A f \in FrameFields(last.updates) :
              Field(last.after, f) = Field(last.before, f)
    /\ bop = "update" =>
          \A g \in 1..Len(tasks) :
              tasks[g].resp.status = "ok" =>
                  \A k \in 1..Len(groups[g].items) :
                      LET req == binput[groups[g].items[k]]
                          before == TheItem(InitStore, req.id, req.category)
                          after == TheItem(store, req.id, req.category)
                      IN \A f \in FrameFields(req.changes) :
                             Field(after, f) = Field(before, f)

(* An update of the name alone has succeeded. *)
C22_Witness ==
    /\ IsUpdate
    /\ last.outcome = "ok"
    /\ last.updates.quantity = Unset
    /\ last.after.name = "n2"
    /\ last.after.name # last.before.name
    /\ last.after.quantity = last.before.quantity

(* C27: a group task of update_products submits no operation for a request
   whose changes set no field. *)
C27_EmptyChangesSkipped ==
    bop = "update" =>
        \A g \in 1..Len(tasks) :
            HasRun(g) =>
                Len(tasks[g].ops) =
                    Cardinality({k \in 1..Len(groups[g].items) :
                        binput[groups[g].items[k]].changes # NoChanges})

(* C30: delete_products returns, group by group, all ids of a group whose
   store call did not raise, in request order, and no id of a group whose
   store call raised. *)
C30_DeleteReportsWholeGroups ==
    Returned /\ bop = "delete" =>
        bresult =
            flatten([g \in 1..Len(groups) |->
                IF tasks[g].resp.status = "ok"
                THEN [k \in 1..Len(groups[g].items) |->
                         binput[groups[g].items[k]].id]
                ELSE <<>>])

(* A batch delete with a group that was deleted and a group the store
   refused has returned. *)
C30_Witness ==
    /\ Returned
    /\ bop = "delete"
    /\ bresult # <<>>
    /\ \E g \in 1..Len(tasks) : GroupFailed(g)

-----------------------------------------------------------------------------
(* Properties of the results of a batch call. *)

StoredIds(st) == {it.id : it \in st}

(* C24: the items a batch create reports have ids that no two of them share
   and that no item had before the call, and each carries a version tag. *)
C24_CreatedItemsHaveFreshIds ==
    Returned /\ bop = "create" =>
        /\ \A i, j \in 1..Len(bresult) : i # j => bresult[i].id # bresult[j].id
        /\ \A i \in 1..Len(bresult) :
              /\ bresult[i].id \notin StoredIds(InitStore)
              /\ bresult[i].etag # NoEtag
              /\ \E it \in store :
                     it.id = bresult[i].id /\ it.etag = bresult[i].etag

(* A batch create of three items in two groups has reported all three. *)
C24_Witness ==
    /\ Returned
    /\ bop = "create"
    /\ Len(groups) = 2
    /\ Len(bresult) = 3

(* The items of a partition, their version tags left aside. *)
Partition(st, key) ==
    {[it EXCEPT !.etag = NoEtag] : it \in {x \in st : x.category = key}}

(* The operations of group g run alone against the store as it was. *)
Alone(g) == RunOps(InitStore, groups[g].key, tasks[g].ops, 1, nextEtag, <<>>)

AllItems(resp) ==
    \A k \in 1..Len(resp.results) : resp.results[k].shape = "item"

(* C25: what the store answered a group, what the group left in its
   partition and what its task returned are what they would be had the
   group run alone: a group that committed stays committed, whatever the
   other groups did and whenever. *)
C25_GroupsAreIndependent ==
    \A g \in 1..Len(tasks) :
        tasks[g].resp.status # "none" =>
            /\ tasks[g].resp.status \in {"ok", "CosmosBatchOperationError"} =>
                  /\ tasks[g].resp.status = Alone(g).status
                  /\ tasks[g].resp.operation_responses =
                         Alone(g).operation_responses
            /\ Partition(store, groups[g].key) =
                   IF tasks[g].resp.status = "ok"
                   THEN Partition(Alone(g).st, groups[g].key)
                   ELSE Partition(InitStore, groups[g].key)
            /\ tasks[g].pc = "done" =>
                   Len(tasks[g].result) =
                       IF tasks[g].resp.status = "ok" /\ AllItems(tasks[g].resp)
                       THEN Len(groups[g].items)
                       ELSE 0

(* A group committed and reported its items after another group of the call
   had failed. *)
C25_Witness ==
    /\ Returned
    /\ \E g, h \in 1..Len(tasks) :
          /\ GroupOk(g)
          /\ GroupFailed(h)
          /\ tasks[h].seq < tasks[g].seq
          /\ tasks[g].result # <<>>
          /\ Partition(store, groups[g].key) # Partition(InitStore, groups[g].key)

(* The ids list_products returns for a category, all pages taken. *)
ListedIds(st, category) ==
    LET results == query_items(st, normalize_category(category),
                       query_partition_key(category,
                                           normalize_category(category)))
    IN ItemIdsOf(list_products(st, category, NoToken, Len(results),
                               Len(results), FALSE, FALSE).items)

(* C26: an item a batch create reports is stored under the partition key
   the single-item paths compute from its category: it is read back by
   get_product_by_id and listed by list_products under that category. *)
C26_BatchCreatedItemsReadBack ==
    Returned /\ bop = "create" =>
        \A i \in 1..Len(bresult) :
            /\ \E it \in store :
                   /\ it.id = bresult[i].id
                   /\ it.category = normalize_category(bresult[i].category)
            /\ get_product_by_id(store, bresult[i].id,
                                 bresult[i].category).outcome = "ok"
            /\ bresult[i].id \in ListedIds(store, bresult[i].category)

(* The first place of a key among the categories of the request. *)
FirstIndex(key) ==
    CHOOSE i \in 1..Len(binput) :
        /\ binput[i].category = key
        /\ \A j \in 1..(i - 1) : binput[j].category # key

(* C29: the list a batch call returns is the results of its groups one
   after the other, the groups in the order in which their keys first stand
   in the request, in whatever order the group tasks finished. *)
C29_ResultOrderIsInputOrder ==
    Returned =>
        /\ bresult = flatten([g \in 1..Len(tasks) |-> tasks[g].result])
        /\ \A g, h \in 1..Len(groups) :
               g < h => FirstIndex(groups[g].key) < FirstIndex(groups[h].key)

(* A call has returned whose second group finished before its first, both
   with results. *)
C29_Witness ==
    /\ Returned
    /\ Len(tasks) >= 2
    /\ tasks[2].seq < tasks[1].seq
    /\ tasks[1].result # <<>>
    /\ tasks[2].result # <<>>

-----------------------------------------------------------------------------
(* product_crud.py: the other single-item operations, with the failures of
   the store each of them handles. *)

(* Failures of a point write: those of every store call, and a conflict the
   store reports on create. *)
SingleFaults == Faults \cup {"conflict"}

(* What a point call of the store raises under a fault. *)
PointFault(st, fault) ==
    CASE fault = "http" ->
            [raised |-> "CosmosHttpResponseError", code |-> 503, st |-> st,
             item |-> NoItem]
      [] fault = "conflict" ->
            [raised |-> "CosmosHttpResponseError", code |-> 409, st |-> st,
             item |-> NoItem]
      [] OTHER ->
            [raised |-> "Exception", code |-> 0, st |-> st, item |-> NoItem]

(* A point call of the store that is not hit by a fault. *)
PointAnswer(st, pk, op, n) ==
    LET r == StoreOp(st, pk, op, n) IN
    IF r.code >= 400
    THEN [raised |-> "CosmosHttpResponseError", code |-> r.code, st |-> st,
          item |-> NoItem]
    ELSE [raised |-> "none", code |-> r.code, st |-> r.st, item |-> r.item]

(* container.create_item *)
create_item(st, body, n, fault) ==
    IF fault # "none" THEN PointFault(st, fault)
    ELSE PointAnswer(st, body.category,
                     BatchOp("create", body.id, body, <<>>, NoEtag), n)

(* container.delete_item *)
delete_item(st, id, pk, fault) ==
    IF fault # "none" THEN PointFault(st, fault)
    ELSE PointAnswer(st, pk, BatchOp("delete", id, NoBody, <<>>, NoEtag), 0)

(* create_product: a fresh id, the category normalized. An id that was
   drawn for a create that failed is in no item and counts as not drawn. *)
create_product(st, n, id, product, fault) ==
    LET data == Item(id, normalize_category(product.category), NoEtag,
                     product.name, product.quantity, "now")
        call == PointCall("create_item", id, data.category, <<>>, NoEtag)
        r == create_item(st, data, n, fault)
    IN CASE r.raised = "none" ->
                IF Validates(r.item)
                THEN Outcome("ok", r.code, <<call>>, r.st, n + 1,
                             ProductResponse(r.item))
                ELSE Outcome(raise("DatabaseError"), r.code, <<call>>, r.st,
                             n + 1, NoItem)
         [] r.raised = "CosmosHttpResponseError" /\ r.code = 409 ->
                Outcome(raise("ProductAlreadyExistsError"), r.code, <<call>>,
                        st, n, NoItem)
         [] OTHER ->
                Outcome(raise("DatabaseError"), r.code, <<call>>, st, n, NoItem)

(* delete_product *)
delete_product(st, product_id, category, fault) ==
    LET normalized_category == normalize_category(category)
        call == PointCall("delete_item", product_id, normalized_category, <<>>,
                          NoEtag)
        r == delete_item(st, product_id, normalized_category, fault)
    IN CASE r.raised = "none" ->
                Outcome("ok", r.code, <<call>>, r.st, 0, NoItem)
         [] r.raised = "CosmosHttpResponseError" /\ r.code = 404 ->
                Outcome(raise("ProductNotFoundError"), r.code, <<call>>, st, 0,
                        NoItem)
         [] OTHER ->
                Outcome(raise("DatabaseError"), r.code, <<call>>, st, 0, NoItem)

(* get_product_by_id when read_item may fail with something else than 404:
   both except branches end in DatabaseError. *)
get_product_by_id_or_error(st, product_id, category, fault) ==
    IF fault = "none" THEN get_product_by_id(st, product_id, category)
    ELSE Outcome(raise("DatabaseError"), PointFault(st, fault).code, <<>>, st,
                 0, NoItem)

(* list_products when the query may fail: both except branches end in
   DatabaseError. The page is the first of the listing, filled. *)
list_products_or_error(st, category, max_items, fault) ==
    LET results == query_items(st, normalize_category(category),
                       query_partition_key(category,
                                           normalize_category(category)))
    IN IF fault = "none"
       THEN Outcome("ok", 200, <<>>, st, 0, NoItem)
       ELSE Outcome(raise("DatabaseError"), PointFault(st, fault).code, <<>>,
                    st, 0, NoItem)

(* One call of a single-item operation or of the listing, recorded. *)
Serve(op, id, category, updates, etag, fault, r) ==
    /\ store' = r.st
    /\ last' = CallRecord(op, id, category, updates, etag, fault, r,
                          Addressed(store, id, category),
                          Addressed(r.st, id, category), r.st # store)
    /\ UNCHANGED <<batchVars, tagOf, wins, scan>>

ServeCreate(product, fault) ==
    /\ nextEtag < MaxEtag
    /\ LET r == create_product(store, nextEtag, nextId, product, fault)
       IN /\ Serve("create_product", nextId, product.category, NoChanges,
                   NoEtag, fault, r)
          /\ nextEtag' = r.n
          /\ nextId' = IF r.outcome = "ok" THEN nextId + 1 ELSE nextId

ServeGet(id, category, fault) ==
    /\ Serve("get_product_by_id", id, category, NoChanges, NoEtag, fault,
             get_product_by_id_or_error(store, id, category, fault))
    /\ UNCHANGED <<nextEtag, nextId>>

ServeDelete(id, category, fault) ==
    /\ Serve("delete_product", id, category, NoChanges, NoEtag, fault,
             delete_product(store, id, category, fault))
    /\ UNCHANGED <<nextEtag, nextId>>

ServeList(category, max_items, fault) ==
    /\ Serve("list_products", 0, category, NoChanges, NoEtag, fault,
             list_products_or_error(store, category, max_items, fault))
    /\ UNCHANGED <<nextEtag, nextId>>

ServeUpdateCall(id, category, updates, etag, fault) ==
    /\ nextEtag < MaxEtag
    /\ ServeUpdate(id, category, updates, etag, fault)
    /\ UNCHANGED <<nextId, batchVars, tagOf, scan>>

SingleNext ==
    \/ \E p \in CreatePool : \E f \in SingleFaults : ServeCreate(p, f)
    \/ \E id \in ItemIds : \E c \in Categories : \E f \in Faults :
           ServeGet(id, c, f)
    \/ \E id \in ItemIds : \E c \in GateCategories : \E u \in GatePatches :
           \E e \in 1..2 : \E f \in Faults : ServeUpdateCall(id, c, u, e, f)
    \/ \E id \in ItemIds : \E c \in Categories : \E f \in Faults :
           ServeDelete(id, c, f)
    \/ \E c \in Categories : \E f \in Faults : ServeList(c, MaxPageSize, f)

SingleSpec == Init /\ [][SingleNext]_vars

-----------------------------------------------------------------------------
(* Properties of the failures of the single-item operations. *)

SingleOps ==
    {"create_product", "get_product_by_id", "update_product", "delete_product",
     "list_products"}

(* The store failed the call served last. *)
StoreFailed == last.op \in SingleOps /\ (last.code >= 400 \/ last.fault # "none")

(* The typed failure the status code of a store error stands for. *)
TypedFailure(op, code) ==
    CASE code = 404 /\ op \in {"get_product_by_id", "update_product",
                               "delete_product"} -> "ProductNotFoundError"
      [] code = 409 /\ op = "create_product" -> "ProductAlreadyExistsError"
      [] code = 412 /\ op = "update_product" -> "PreconditionFailedError"
      [] OTHER -> "DatabaseError"

(* C23: a call the store failed ends in the typed failure its status code
   stands for, never in an exception of the store or of another kind. *)
C23_StoreErrorsReachCallerTyped ==
    StoreFailed /\ last.outcome # "ValueError" =>
        last.outcome = TypedFailure(last.op, last.code)

-----------------------------------------------------------------------------
(* routes/product_route.py and function_app.py: how the PATCH route answers
   what update_product ends in. *)

(* handle_value_error: the response of the application's handler for a
   ValueError that leaves a route. *)
handle_value_error == 400

(* update_existing_product: the except branches of the route, in their
   order; the last one takes every Exception, ValueError included, so that
   only HTTPException leaves the route. *)
update_existing_product(outcome) ==
    CASE outcome = "ok" -> [raised |-> "none", status_code |-> 200]
      [] outcome = "ProductNotFoundError" ->
            [raised |-> "HTTPException", status_code |-> 404]
      [] outcome = "PreconditionFailedError" ->
            [raised |-> "HTTPException", status_code |-> 412]
      [] outcome = "DatabaseError" ->
            [raised |-> "HTTPException", status_code |-> 500]
      [] OTHER -> [raised |-> "HTTPException", status_code |-> 500]

(* The status the HTTP caller sees: that of the route's answer or
   HTTPException, or the handler's for a ValueError that left the route. *)
http_status(answer) ==
    IF answer.raised = "ValueError" THEN handle_value_error
    ELSE answer.status_code

(* C28: an update that sets no field, sent through the PATCH route, is
   answered with status 400. *)
C28_EmptyPatchAnswered400 ==
    IsUpdate /\ last.updates = NoChanges =>
        http_status(update_existing_product(last.outcome)) = 400

=============================================================================
